---- MODULE Spec2Model ----
(***************************************************************************)
(* A model of the job execution core of jade: the simulated HPC backend    *)
(* (jade/hpc/fake_manager.py), the result bookkeeping of the job manager   *)
(* base class (jade/jobs/job_manager_base.py) and the batch runner that    *)
(* drives them.                                                            *)
(***************************************************************************)
EXTENDS Integers, Sequences, FiniteSets, TLC

(* ------------------------------ bounds --------------------------------- *)

\* Total number of submit calls explored on the simulated backend.
MaxSubmits == 4

\* Number of submit calls explored when only submits and child exits are run,
\* enough for the ids to reach two digits.
MaxSeqSubmits == 11

\* Total number of submit calls explored when threads call submit at once.
MaxThreadSubmits == 3

\* Polls without a report of a submitted job after which the runner gives the
\* job up as lost.
SilenceLimit == 2

\* Largest number of jobs in a configuration.
MaxJobs == 3

\* Longest country name given to AutoRegressionParameters.
MaxCountryLen == 2

\* Most pieces of a configuration filename given to run_jobs.
MaxFileLen == 6

\* Most characters of a name given to check_filename, before padding.
MaxNameLen == 2

\* Processes that may call makedirs at the same time.
MaxProcs == 2

\* Longest list a caller makes of the one get_completed_results returned.
MaxSnapLen == 3

\* Most jobs of the configuration whose results a caller gets as a list.
MaxSnapJobs == 2

(* ----------------------------- constants ------------------------------- *)

\* utils.MAX_PATH_LENGTH
MAX_PATH_LENGTH == 255

\* Two FakeManager objects living in one Python process.
Inst == {"A", "B"}

\* Submission scripts handed to submit().
Scripts == {"job_0.sh", "job_1.sh"}

\* Python's None where a job id is expected (a job id is a string of digits,
\* modelled as the sequence of its decimal digits; None has no digits).
None == <<>>

\* str(n) for a non-negative int: its decimal digits, most significant first.
RECURSIVE Str(_)
Str(n) == IF n < 10 THEN <<n>> ELSE Str(n \div 10) \o <<n % 10>>

\* int(s) for a string of decimal digits.
RECURSIVE IntOf(_)
IntOf(s) == IF Len(s) = 0 THEN 0
            ELSE 10 * IntOf(SubSeq(s, 1, Len(s) - 1)) + s[Len(s)]

\* Return codes a job may end with (0 is success).
Statuses == {0, 1, -9}

\* The configuration of n jobs: job k stands for the job named job_<k>.
Config(n) == [k \in 1..n |-> k - 1]

\* Job ids a caller may ask about: ids the backends can issue, and one more.
QueryIds == {Str(k) : k \in 1..(MaxSubmits + 1)} \cup {None}

(* ------------------------------- state --------------------------------- *)

VARIABLES
    next_job_id,      \* FakeManager.next_job_id, a class attribute
    job_id,           \* self._job_id of each FakeManager
    subprocess_mgr,   \* self._subprocess_mgr of each FakeManager: <<>> is None
    submitted,        \* history: the <<instance, id>> of every submit, in order
    ret,              \* the value the last call returned
    config,           \* JobManagerBase._config: the job names, in stored order
    results,          \* JobManagerBase._results: the recorded Result objects
    summary_seen,     \* history: the summary returned since the last recording
    pc,               \* where each caller thread is inside submit
    frame,            \* each caller thread's arguments and loaded value
    jstate,           \* the runner's state of each job of the configuration
    ext_id,           \* the external id of each submitted job
    silence,          \* polls in a row that did not report each submitted job
    ceiling,          \* the runner's concurrency ceiling
    arp_x,            \* an AutoRegressionParameters object: <<>> before it is made
    arp_ser,          \* the dict serialize() returned for it: <<>> before the call
    arp_y,            \* the object deserialize() made of that dict
    script_file,      \* the file at the submission script's path
    cs,               \* the create_script call in progress
    seen,             \* what an observer of the path saw last: <<>> is nothing
    ac,               \* the auto_config command being run
    config_file,      \* the configuration file auto_config dumps: <<>> is no file
    cancel_requested, \* the batch was asked to cancel
    cancel_calls,     \* the runner's calls of the backend's cancel, in order
    aborted,          \* the jobs marked TERMINAL-aborted
    rj,               \* the run_jobs command being run
    output_dir,       \* the output directory of run_jobs exists
    cf,               \* the last call of check_filename and how it ended
    md,               \* where each process is inside makedirs
    dirs,             \* the directories that exist
    snap              \* the list get_completed_results returned: <<>> is none

backendVars == <<next_job_id, job_id, subprocess_mgr, submitted>>
ledgerVars == <<config, results, summary_seen>>
threadVars == <<pc, frame>>
runnerVars == <<jstate, ext_id, silence, ceiling>>
paramVars == <<arp_x, arp_ser, arp_y>>

scriptVars == <<script_file, cs, seen>>
autoConfigVars == <<ac, config_file>>
cancelVars == <<cancel_requested, cancel_calls, aborted>>
runJobsVars == <<rj, output_dir>>
utilsVars == <<cf, md, dirs>>
snapVars == <<snap>>

\* The state no backend, job manager or running batch touches.
extVars == <<paramVars, scriptVars, autoConfigVars, cancelVars, runJobsVars,
             utilsVars, snapVars>>

vars == <<backendVars, ret, ledgerVars, threadVars, runnerVars, extVars>>

\* The parts of the state a call on the backend, or on the job manager,
\* has no access to.
BackendOnly == UNCHANGED <<ledgerVars, threadVars, runnerVars, extVars>>
LedgerOnly == UNCHANGED <<backendVars, threadVars, runnerVars, extVars>>
ThreadsOnly == UNCHANGED <<ledgerVars, runnerVars, extVars>>

\* The value of a call that has not been made.
NoCall == [op |-> "none"]

\* class FakeManager: next_job_id = 1
InitNextJobId == 1

\* FakeManager.__init__
FakeManagerInit(i) == [job_id |-> None, subprocess_mgr |-> <<>>]

\* SubprocessManager.in_progress(): the child has not exited.
in_progress(p) == p.alive

\* HpcJobInfo(job_id, name, status)
HpcJobInfo(id, name, status) == [job_id |-> id, name |-> name, status |-> status]

\* check_status with the two branches for an existing child exchanged.
check_status_swapped(i, id) ==
    IF subprocess_mgr[i] = <<>>
    THEN HpcJobInfo(id, "", "NONE")
    ELSE IF in_progress(subprocess_mgr[i][1])
         THEN HpcJobInfo(id, "", "COMPLETE")
         ELSE HpcJobInfo(id, "", "RUNNING")

\* check_status reporting RUNNING for as long as there is a SubprocessManager.
check_status_never_complete(i, id) ==
    IF subprocess_mgr[i] = <<>>
    THEN HpcJobInfo(id, "", "NONE")
    ELSE HpcJobInfo(id, "", "RUNNING")

\* FakeManager.check_status: the job id argument is only copied to the result.
check_status(i, id) ==
    IF subprocess_mgr[i] = <<>>
    THEN HpcJobInfo(id, "", "NONE")
    ELSE IF in_progress(subprocess_mgr[i][1])
         THEN HpcJobInfo(id, "", "RUNNING")
         ELSE HpcJobInfo(id, "", "COMPLETE")

\* FakeManager.check_statuses: a dict with the single key self._job_id.
check_statuses(i) ==
    [k \in {job_id[i]} |-> check_status(i, job_id[i]).status]

\* A cancel_job that reports a failure.
cancel_job_failing(i, id) == 1

\* FakeManager.cancel_job
cancel_job(i, id) == 0

\* The backends after construction, before any call.
InitBackend ==
    /\ next_job_id = InitNextJobId
    /\ job_id = [i \in Inst |-> FakeManagerInit(i).job_id]
    /\ subprocess_mgr = [i \in Inst |-> FakeManagerInit(i).subprocess_mgr]
    /\ submitted = <<>>
    /\ ret = NoCall

\* No summary was returned since the last recording.
NoSummary == [calls |-> 0]

\* A results list that is shared with an earlier manager and holds its Result.
InitResultsShared == <<[name |-> 0, status |-> 0]>>

\* JobManagerBase.__init__: self._results = []
InitResults == <<>>

\* JobManagerBase.__init__ for a configuration of n jobs.
InitLedger(n) ==
    /\ config = Config(n)
    /\ results = InitResults
    /\ summary_seen = NoSummary

\* Threads that may call submit at the same time.
Threads == {"t1", "t2"}

\* No thread is inside submit.
InitThreads ==
    /\ pc = [t \in Threads |-> "idle"]
    /\ frame = [t \in Threads |-> [self |-> "A", filename |-> "", loaded |-> 0]]

\* No batch runner.
InitNoRunner ==
    /\ jstate = <<>>
    /\ ext_id = <<>>
    /\ silence = <<>>
    /\ ceiling = 0

\* No AutoRegressionParameters object was made.
InitParams ==
    /\ arp_x = <<>>
    /\ arp_ser = <<>>
    /\ arp_y = <<>>

\* A path with no file.
NoFile == [exists |-> FALSE, text |-> <<>>, exec |-> FALSE]

\* No create_script call is in progress.
NoScriptCall == [pc |-> "idle", text |-> <<>>, executable |-> FALSE, old |-> NoFile]

\* The script's path has no file and nobody writes it.
InitScript ==
    /\ script_file = NoFile
    /\ cs = NoScriptCall
    /\ seen = <<>>

\* auto_config is not running.
NoAutoConfig ==
    [pc |-> "idle", post_process |-> "none", extension |-> "registered",
     routine |-> "ok", num_jobs |-> 0, post_process_config |-> "None",
     trace |-> <<>>, error |-> "none", file_at_entry |-> <<>>]

\* auto_config was not run and there is no configuration file.
InitAutoConfig ==
    /\ ac = NoAutoConfig
    /\ config_file = <<>>

\* No cancellation was requested.
InitCancel ==
    /\ cancel_requested = FALSE
    /\ cancel_calls = <<>>
    /\ aborted = {}

\* run_jobs is not running.
NoRunJobs ==
    [pc |-> "idle", config_file |-> <<>>, batch_id |-> <<>>,
     log_file |-> <<>>, runner |-> <<>>, outcome |-> <<>>, exit_code |-> <<>>,
     error |-> "none"]

\* run_jobs was not run and there is no output directory.
InitRunJobs ==
    /\ rj = NoRunJobs
    /\ output_dir = FALSE

\* The processes that call makedirs.
Procs == 1..MaxProcs

\* A process outside makedirs.
NoMakedirs == [pc |-> "idle", path |-> <<>>, error |-> "none", caught |-> FALSE]

\* check_filename was not called, no process is inside makedirs and no
\* directory exists.
InitUtils ==
    /\ cf = [op |-> "none"]
    /\ md = [p \in Procs |-> NoMakedirs]
    /\ dirs = {}

\* get_completed_results was not called.
InitSnap == snap = <<>>

\* Nothing has happened outside the backend, the job manager and the runner.
InitExt ==
    /\ InitParams
    /\ InitScript
    /\ InitAutoConfig
    /\ InitCancel
    /\ InitRunJobs
    /\ InitUtils
    /\ InitSnap

Init ==
    /\ InitBackend
    /\ InitLedger(1)
    /\ InitThreads
    /\ InitNoRunner
    /\ InitExt

\* submit without the increment of the counter.
SubmitNoIncrement(i, filename) ==
    /\ job_id' = [job_id EXCEPT ![i] = Str(next_job_id)]
    /\ next_job_id' = next_job_id
    /\ subprocess_mgr' = [subprocess_mgr EXCEPT
                            ![i] = <<[script |-> filename, alive |-> TRUE]>>]
    /\ submitted' = Append(submitted, <<i, job_id'[i]>>)
    /\ ret' = [op |-> "submit", inst |-> i, status |-> "GOOD",
               job_id |-> job_id'[i], err |-> None]

\* submit with _job_id and _subprocess_mgr kept on the class, not the object.
SubmitClassState(i, filename) ==
    /\ job_id' = [j \in Inst |-> Str(next_job_id)]
    /\ next_job_id' = next_job_id + 1
    /\ subprocess_mgr' = [j \in Inst |-> <<[script |-> filename, alive |-> TRUE]>>]
    /\ submitted' = Append(submitted, <<i, job_id'[i]>>)
    /\ ret' = [op |-> "submit", inst |-> i, status |-> "GOOD",
               job_id |-> job_id'[i], err |-> None]

\* FakeManager.submit, called by one caller at a time.
Submit(i, filename) ==
    /\ job_id' = [job_id EXCEPT ![i] = Str(next_job_id)]
    /\ next_job_id' = next_job_id + 1
    /\ subprocess_mgr' = [subprocess_mgr EXCEPT
                            ![i] = <<[script |-> filename, alive |-> TRUE]>>]
    /\ submitted' = Append(submitted, <<i, job_id'[i]>>)
    /\ ret' = [op |-> "submit", inst |-> i, status |-> "GOOD",
               job_id |-> job_id'[i], err |-> None]

\* A call of check_status(job_id=id) on instance i.
CheckStatus(i, id) ==
    /\ ret' = [op |-> "check_status", inst |-> i, arg |-> id,
               info |-> check_status(i, id)]
    /\ UNCHANGED <<next_job_id, job_id, subprocess_mgr, submitted>>

\* A call of check_statuses() on instance i.
CheckStatuses(i) ==
    /\ ret' = [op |-> "check_statuses", inst |-> i, val |-> check_statuses(i)]
    /\ UNCHANGED <<next_job_id, job_id, subprocess_mgr, submitted>>

\* A cancel_job(id) that ends the child process of instance i.
CancelJobKilling(i, id) ==
    /\ ret' = [op |-> "cancel_job", inst |-> i, arg |-> id,
               code |-> cancel_job(i, id)]
    /\ subprocess_mgr' = [subprocess_mgr EXCEPT ![i] =
                             IF @ = <<>> THEN @ ELSE <<[@[1] EXCEPT !.alive = FALSE]>>]
    /\ UNCHANGED <<next_job_id, job_id, submitted>>

\* A call of cancel_job(id) on instance i.
CancelJob(i, id) ==
    /\ ret' = [op |-> "cancel_job", inst |-> i, arg |-> id,
               code |-> cancel_job(i, id)]
    /\ UNCHANGED <<next_job_id, job_id, subprocess_mgr, submitted>>

\* The child process started by the last submit of instance i exits.
ProcessExit(i) ==
    /\ subprocess_mgr[i] # <<>>
    /\ subprocess_mgr[i][1].alive
    /\ subprocess_mgr' = [subprocess_mgr EXCEPT ![i] = <<[@[1] EXCEPT !.alive = FALSE]>>]
    /\ UNCHANGED <<next_job_id, job_id, submitted, ret>>

Next ==
    \/ \E i \in Inst, f \in Scripts :
         Len(submitted) < MaxSubmits /\ Submit(i, f) /\ BackendOnly
    \/ \E i \in Inst, id \in QueryIds : CheckStatus(i, id) /\ BackendOnly
    \/ \E i \in Inst : CheckStatuses(i) /\ BackendOnly
    \/ \E i \in Inst, id \in QueryIds : CancelJob(i, id) /\ BackendOnly
    \/ \E i \in Inst : ProcessExit(i) /\ BackendOnly

Spec == Init /\ [][Next]_vars

(* ------------------- submit called from several threads ---------------- *)

\* A thread enters submit(filename) on instance i.
SubmitEnter(t, i, filename) ==
    /\ pc[t] = "idle"
    /\ Len(submitted) + Cardinality({u \in Threads : pc[u] # "idle"})
         < MaxThreadSubmits
    /\ pc' = [pc EXCEPT ![t] = "L96_load"]
    /\ frame' = [frame EXCEPT ![t] = [self |-> i, filename |-> filename, loaded |-> 0]]
    /\ UNCHANGED <<backendVars, ret>>

\* Line 96, first half: FakeManager.next_job_id is read.
SubmitL96Load(t) ==
    /\ pc[t] = "L96_load"
    /\ frame' = [frame EXCEPT ![t].loaded = next_job_id]
    /\ pc' = [pc EXCEPT ![t] = "L96_store"]
    /\ UNCHANGED <<backendVars, ret>>

\* Line 96, second half: self._job_id = str(<the value read>).
SubmitL96Store(t) ==
    /\ pc[t] = "L96_store"
    /\ job_id' = [job_id EXCEPT ![frame[t].self] = Str(frame[t].loaded)]
    /\ pc' = [pc EXCEPT ![t] = "L97_load"]
    /\ UNCHANGED <<next_job_id, subprocess_mgr, submitted, ret, frame>>

\* Line 97, first half: FakeManager.next_job_id is read again.
SubmitL97Load(t) ==
    /\ pc[t] = "L97_load"
    /\ frame' = [frame EXCEPT ![t].loaded = next_job_id]
    /\ pc' = [pc EXCEPT ![t] = "L97_store"]
    /\ UNCHANGED <<backendVars, ret>>

\* Line 97, second half: FakeManager.next_job_id = <the value read> + 1.
SubmitL97Store(t) ==
    /\ pc[t] = "L97_store"
    /\ next_job_id' = frame[t].loaded + 1
    /\ pc' = [pc EXCEPT ![t] = "L98"]
    /\ UNCHANGED <<job_id, subprocess_mgr, submitted, ret, frame>>

\* Lines 98-99: a new SubprocessManager runs the script.
SubmitL98Run(t) ==
    /\ pc[t] = "L98"
    /\ subprocess_mgr' = [subprocess_mgr EXCEPT
            ![frame[t].self] = <<[script |-> frame[t].filename, alive |-> TRUE]>>]
    /\ pc' = [pc EXCEPT ![t] = "L100"]
    /\ UNCHANGED <<next_job_id, job_id, submitted, ret, frame>>

\* Line 100: return Status.GOOD, self._job_id, None.
SubmitL100Return(t) ==
    /\ pc[t] = "L100"
    /\ ret' = [op |-> "submit", inst |-> frame[t].self, status |-> "GOOD",
               job_id |-> job_id[frame[t].self], err |-> None]
    /\ submitted' = Append(submitted, <<frame[t].self, job_id[frame[t].self]>>)
    /\ pc' = [pc EXCEPT ![t] = "idle"]
    /\ UNCHANGED <<next_job_id, job_id, subprocess_mgr, frame>>

NextThreads ==
    \/ \E t \in Threads, i \in Inst, f \in Scripts :
         SubmitEnter(t, i, f) /\ ThreadsOnly
    \/ \E t \in Threads : SubmitL96Load(t) /\ ThreadsOnly
    \/ \E t \in Threads : SubmitL96Store(t) /\ ThreadsOnly
    \/ \E t \in Threads : SubmitL97Load(t) /\ ThreadsOnly
    \/ \E t \in Threads : SubmitL97Store(t) /\ ThreadsOnly
    \/ \E t \in Threads : SubmitL98Run(t) /\ ThreadsOnly
    \/ \E t \in Threads : SubmitL100Return(t) /\ ThreadsOnly
    \/ \E i \in Inst : ProcessExit(i) /\ BackendOnly

SpecThreads == Init /\ [][NextThreads]_vars

\* Only submits and child exits, for a longer run of the id counter.
NextSeq ==
    \/ \E i \in Inst, f \in Scripts :
         Len(submitted) < MaxSeqSubmits /\ Submit(i, f) /\ BackendOnly
    \/ \E i \in Inst : ProcessExit(i) /\ BackendOnly

SpecSeq == Init /\ [][NextSeq]_vars

(* ------------------------- the result ledger -------------------------- *)

\* Result(name, return_code, status, exec_time_s), cut to what is read here.
Result(name, status) == [name |-> name, status |-> status]

\* The job names that have a Result.
RecordedNames == {results[k].name : k \in 1..Len(results)}

\* Appending to the ledger: refused for a job name that has a Result.
append(rs, r) ==
    IF \E k \in 1..Len(rs) : rs[k].name = r.name
    THEN [results |-> rs, err |-> "DuplicateResultError"]
    ELSE [results |-> Append(rs, r), err |-> "none"]

\* JobManagerBase.get_num_jobs: self._config.get_num_jobs()
get_num_jobs == Len(config)

\* The loop of get_results_summmary over self._results[k..], from the counts
\* reached so far.
RECURSIVE CountResults(_, _, _, _)
CountResults(rs, k, num_successful, num_failed) ==
    IF k > Len(rs)
    THEN [num_successful |-> num_successful, num_failed |-> num_failed]
    ELSE IF rs[k].status = 0
         THEN CountResults(rs, k + 1, num_successful + 1, num_failed)
         ELSE CountResults(rs, k + 1, num_successful, num_failed + 1)

\* The same loop counting as failed only a positive status.
RECURSIVE CountResultsPositive(_, _, _, _)
CountResultsPositive(rs, k, num_successful, num_failed) ==
    IF k > Len(rs)
    THEN [num_successful |-> num_successful, num_failed |-> num_failed]
    ELSE IF rs[k].status = 0
         THEN CountResultsPositive(rs, k + 1, num_successful + 1, num_failed)
         ELSE IF rs[k].status > 0
              THEN CountResultsPositive(rs, k + 1, num_successful, num_failed + 1)
              ELSE CountResultsPositive(rs, k + 1, num_successful, num_failed)

\* get_results_summmary with the loop that counts only a positive status as
\* failed.
get_results_summmary_positive ==
    LET n == CountResultsPositive(results, 1, 0, 0)
    IN  [num_jobs |-> get_num_jobs,
         num_complete |-> Len(results),
         num_successful |-> n.num_successful,
         num_failed |-> n.num_failed]

\* JobManagerBase.get_results_summmary
get_results_summmary ==
    LET n == CountResults(results, 1, 0, 0)
    IN  [num_jobs |-> get_num_jobs,
         num_complete |-> Len(results),
         num_successful |-> n.num_successful,
         num_failed |-> n.num_failed]

\* json.dumps(data, indent=4): the keys in insertion order, each with its
\* value in decimal.
json_dumps(data) ==
    << <<"num_jobs", Str(data.num_jobs)>>,
       <<"num_complete", Str(data.num_complete)>>,
       <<"num_successful", Str(data.num_successful)>>,
       <<"num_failed", Str(data.num_failed)>> >>

\* JobManagerBase.get_results_summmary_report
get_results_summmary_report == json_dumps(get_results_summmary)

\* One more call of get_results_summmary since the last recording.
SummarySeen(val) ==
    [calls |-> IF summary_seen.calls < 2 THEN summary_seen.calls + 1 ELSE 2,
     val |-> val]

\* A Result for job `name` is handed to the ledger.
RecordResult(name, status) ==
    LET a == append(results, Result(name, status))
    IN  /\ results' = a.results
        /\ ret' = [op |-> "append", arg |-> Result(name, status), err |-> a.err]
        /\ summary_seen' = IF a.err = "none" THEN NoSummary ELSE summary_seen
        /\ UNCHANGED config

\* A call of get_results_summmary that empties the list it walks.
GetResultsSummaryDraining ==
    /\ ret' = [op |-> "get_results_summmary", val |-> get_results_summmary]
    /\ summary_seen' = SummarySeen(get_results_summmary)
    /\ results' = <<>>
    /\ UNCHANGED config

\* A call of get_results_summmary.
GetResultsSummary ==
    /\ ret' = [op |-> "get_results_summmary", val |-> get_results_summmary]
    /\ summary_seen' = SummarySeen(get_results_summmary)
    /\ UNCHANGED <<config, results>>

\* A call of get_results_summmary_report, which calls get_results_summmary.
GetResultsSummaryReport ==
    /\ ret' = [op |-> "get_results_summmary_report",
               val |-> get_results_summmary_report]
    /\ summary_seen' = SummarySeen(get_results_summmary)
    /\ UNCHANGED <<config, results>>

\* A call of get_num_jobs.
GetNumJobs ==
    /\ ret' = [op |-> "get_num_jobs", val |-> get_num_jobs]
    /\ UNCHANGED ledgerVars

\* A job manager for a configuration of 1..MaxJobs jobs, after construction.
InitManager ==
    /\ InitBackend
    /\ \E n \in 1..MaxJobs : InitLedger(n)
    /\ InitThreads
    /\ InitNoRunner
    /\ InitExt

NextLedger ==
    \/ \E k \in 1..Len(config), st \in Statuses :
         RecordResult(config[k], st) /\ LedgerOnly
    \/ GetResultsSummary /\ LedgerOnly
    \/ GetResultsSummaryReport /\ LedgerOnly
    \/ GetNumJobs /\ LedgerOnly

SpecLedger == InitManager /\ [][NextLedger]_vars

(* ----------------------- get_completed_results ------------------------- *)

\* A get_completed_results that returns self._results itself.
get_completed_results_alias == [list |-> results, alias |-> TRUE]

\* JobManagerBase.get_completed_results: self._results[:], a new list with
\* the same elements.
get_completed_results == [list |-> results, alias |-> FALSE]

\* A call of get_completed_results; the caller keeps the list.
GetCompletedResults ==
    /\ snap' = <<get_completed_results>>
    /\ ret' = [op |-> "get_completed_results", val |-> snap'[1].list]
    /\ UNCHANGED ledgerVars

\* The caller's list becomes `new`; a list that is self._results changes the
\* manager's results with it.
CallerMutate(new) ==
    /\ snap # <<>>
    /\ snap' = <<[snap[1] EXCEPT !.list = new]>>
    /\ results' = IF snap[1].alias THEN new ELSE results
    /\ summary_seen' = IF results' = results THEN summary_seen ELSE NoSummary
    /\ UNCHANGED <<config, ret>>

\* What a caller adds to the list it got.
CallerResults == {Result(0, 1)}

\* list.append(r) on the returned list
CallerAppend(r) ==
    /\ snap # <<>>
    /\ Len(snap[1].list) < MaxSnapLen
    /\ CallerMutate(Append(snap[1].list, r))

\* del list[k] on the returned list
CallerRemove(k) ==
    /\ snap # <<>>
    /\ k \in 1..Len(snap[1].list)
    /\ CallerMutate(SubSeq(snap[1].list, 1, k - 1)
                      \o SubSeq(snap[1].list, k + 1, Len(snap[1].list)))

\* list.reverse() on the returned list
CallerReverse ==
    /\ snap # <<>>
    /\ LET l == snap[1].list
       IN  CallerMutate([k \in 1..Len(l) |-> l[Len(l) + 1 - k]])

\* A Result is handed to the ledger while a caller holds a returned list.
SnapRecordResult(name, status) ==
    /\ RecordResult(name, status)
    /\ snap' = IF snap # <<>> /\ snap[1].alias
               THEN <<[snap[1] EXCEPT !.list = results']>>
               ELSE snap

\* What a job manager and the callers of get_completed_results have no
\* access to.
SnapshotOnly ==
    UNCHANGED <<backendVars, threadVars, runnerVars, paramVars, scriptVars,
                autoConfigVars, cancelVars, runJobsVars, utilsVars>>

NextSnapshot ==
    \/ \E k \in 1..Len(config), st \in Statuses :
         SnapRecordResult(config[k], st) /\ SnapshotOnly
    \/ GetCompletedResults /\ SnapshotOnly
    \/ \E r \in CallerResults : CallerAppend(r) /\ SnapshotOnly
    \/ \E k \in 1..MaxSnapLen : CallerRemove(k) /\ SnapshotOnly
    \/ CallerReverse /\ SnapshotOnly
    \/ GetResultsSummary /\ UNCHANGED snap /\ SnapshotOnly

\* A job manager for a configuration of 1..MaxSnapJobs jobs, after
\* construction.
InitSnapshot ==
    /\ InitBackend
    /\ \E n \in 1..MaxSnapJobs : InitLedger(n)
    /\ InitThreads
    /\ InitNoRunner
    /\ InitExt

SpecSnapshot == InitSnapshot /\ [][NextSnapshot]_vars

(* --------------------------- the batch runner -------------------------- *)

\* The backend instance the runner holds.
RunnerBackend == "A"

\* The submission script written for a job.
ScriptOf(name) == <<"job_", name, ".sh">>

JobsIn(st) == {j \in 1..Len(config) : jstate[j] = st}

\* Step 1: the configuration is loaded and every job is PENDING.
InitRunner ==
    /\ InitBackend
    /\ InitThreads
    /\ InitExt
    /\ \E n \in 2..MaxJobs :
         /\ InitLedger(n)
         /\ jstate = [j \in 1..n |-> "PENDING"]
         /\ ext_id = [j \in 1..n |-> None]
         /\ silence = [j \in 1..n |-> 0]
         /\ ceiling \in 1..(n - 1)

\* Step 2: with a free slot, the earliest PENDING job is submitted.
RunnerSubmit ==
    /\ ~ cancel_requested
    /\ JobsIn("PENDING") # {}
    /\ Cardinality(JobsIn("SUBMITTED")) < ceiling
    /\ LET j == CHOOSE p \in JobsIn("PENDING") : \A q \in JobsIn("PENDING") : p <= q
       IN  /\ Submit(RunnerBackend, ScriptOf(config[j]))
           /\ IF ret'.status = "GOOD"
              THEN /\ jstate' = [jstate EXCEPT ![j] = "SUBMITTED"]
                   /\ ext_id' = [ext_id EXCEPT ![j] = ret'.job_id]
                   /\ results' = results
              ELSE /\ jstate' = [jstate EXCEPT ![j] = "TERMINAL"]
                   /\ ext_id' = ext_id
                   /\ results' = append(results, Result(config[j], 1)).results
           /\ silence' = [silence EXCEPT ![j] = 0]
    /\ summary_seen' = IF results' = results THEN summary_seen ELSE NoSummary
    /\ UNCHANGED <<config, ceiling, threadVars, extVars>>

\* Step 3 for the jobs j.., given the mapping a bulk status query returned:
\* a job reported COMPLETE or FAILED becomes TERMINAL with a Result, and so
\* does a job not reported for SilenceLimit polls in a row.
RECURSIVE PollJobs(_, _, _)
PollJobs(j, val, acc) ==
    IF j > Len(config) THEN acc
    ELSE IF acc.jstate[j] # "SUBMITTED" THEN PollJobs(j + 1, val, acc)
    ELSE LET reported == ext_id[j] \in DOMAIN val /\ val[ext_id[j]] # "NONE"
             terminal(status) ==
                 [jstate |-> [acc.jstate EXCEPT ![j] = "TERMINAL"],
                  silence |-> acc.silence,
                  results |-> append(acc.results, Result(config[j], status)).results]
         IN  IF reported /\ val[ext_id[j]] = "COMPLETE"
             THEN PollJobs(j + 1, val, terminal(0))
             ELSE IF reported /\ val[ext_id[j]] = "FAILED"
             THEN PollJobs(j + 1, val, terminal(1))
             ELSE IF reported
             THEN PollJobs(j + 1, val, [acc EXCEPT !.silence[j] = 0])
             ELSE IF acc.silence[j] + 1 >= SilenceLimit
             THEN PollJobs(j + 1, val, terminal(1))
             ELSE PollJobs(j + 1, val, [acc EXCEPT !.silence[j] = @ + 1])

\* Step 3: no job can be submitted now, and the submitted jobs are polled.
RunnerPoll ==
    /\ JobsIn("SUBMITTED") # {}
    /\ ~ (JobsIn("PENDING") # {} /\ Cardinality(JobsIn("SUBMITTED")) < ceiling)
    /\ CheckStatuses(RunnerBackend)
    /\ LET acc == PollJobs(1, ret'.val,
                           [jstate |-> jstate, silence |-> silence, results |-> results])
       IN  /\ jstate' = acc.jstate
           /\ silence' = acc.silence
           /\ results' = acc.results
    /\ summary_seen' = IF results' = results THEN summary_seen ELSE NoSummary
    /\ UNCHANGED <<config, ceiling, ext_id, threadVars, extVars>>

\* A Result is handed to the ledger for a job that has one.
RecordAgain(name, status) ==
    /\ name \in RecordedNames
    /\ RecordResult(name, status)
    /\ UNCHANGED <<backendVars, threadVars, runnerVars, extVars>>

\* The child of the runner's backend exits.
RunnerProcessExit == ProcessExit(RunnerBackend) /\ BackendOnly

NextRunner ==
    \/ RunnerSubmit
    \/ RunnerPoll
    \/ RunnerProcessExit
    \/ \E k \in 1..Len(config), st \in Statuses : RecordAgain(config[k], st)

\* The coordinating loop keeps running and every child process exits.
SpecRunner ==
    /\ InitRunner
    /\ [][NextRunner]_vars
    /\ WF_vars(RunnerSubmit)
    /\ WF_vars(RunnerPoll)
    /\ WF_vars(RunnerProcessExit)

\* The runner's calls of the backend's cancel for the SUBMITTED jobs j..,
\* in the configuration's order.
RECURSIVE CancelSubmitted(_)
CancelSubmitted(j) ==
    IF j > Len(config) THEN <<>>
    ELSE IF jstate[j] = "SUBMITTED"
         THEN <<[job |-> j, id |-> ext_id[j],
                 code |-> cancel_job(RunnerBackend, ext_id[j])]>>
              \o CancelSubmitted(j + 1)
         ELSE CancelSubmitted(j + 1)

\* The batch is cancelled: cancel is attempted for every SUBMITTED job, and
\* every PENDING job is marked TERMINAL-aborted.
RunnerCancel ==
    /\ ~ cancel_requested
    /\ cancel_requested' = TRUE
    /\ cancel_calls' = CancelSubmitted(1)
    /\ aborted' = JobsIn("PENDING")
    /\ jstate' = [j \in DOMAIN jstate |->
                    IF jstate[j] = "PENDING" THEN "TERMINAL" ELSE jstate[j]]
    /\ ret' = IF cancel_calls' = <<>> THEN ret
              ELSE LET c == cancel_calls'[Len(cancel_calls')]
                   IN  [op |-> "cancel_job", inst |-> RunnerBackend,
                        arg |-> c.id, code |-> c.code]
    /\ UNCHANGED <<backendVars, ledgerVars, threadVars, ext_id, silence, ceiling,
                   paramVars, scriptVars, autoConfigVars, runJobsVars,
                   utilsVars, snapVars>>

NextCancel ==
    \/ RunnerSubmit
    \/ RunnerPoll
    \/ RunnerProcessExit
    \/ RunnerCancel

SpecCancel == InitRunner /\ [][NextCancel]_vars

(* ---------------------- AutoRegressionParameters ----------------------- *)

\* The characters country names are made of.
Chars == {"U", "u", "s", " ", "_"}

\* The strings over Chars of at most n characters.
RECURSIVE StringsUpTo(_)
StringsUpTo(n) ==
    IF n = 0 THEN {<<>>}
    ELSE LET shorter == StringsUpTo(n - 1)
         IN  shorter \cup {Append(w, c) : w \in shorter, c \in Chars}

Countries == StringsUpTo(MaxCountryLen)

\* Paths of csv files.
DataPaths == {"gdp.csv", "data/gdp 2.csv"}

\* str.replace(" ", "_")
RECURSIVE replace_space(_)
replace_space(w) ==
    IF w = <<>> THEN <<>>
    ELSE <<IF w[1] = " " THEN "_" ELSE w[1]>> \o replace_space(Tail(w))

\* str.lower()
RECURSIVE lower(_)
lower(w) ==
    IF w = <<>> THEN <<>>
    ELSE <<IF w[1] = "U" THEN "u" ELSE w[1]>> \o lower(Tail(w))

\* _create_name without the call of lower().
create_name_no_lower(country) == replace_space(country)

\* AutoRegressionParameters._create_name
create_name(country) == lower(replace_space(country))

\* AutoRegressionParameters._EXTENSION
EXTENSION == "demo"

\* AutoRegressionParameters.__init__, with the extension property's value.
AutoRegressionParameters(country, data) ==
    [country |-> country, data |-> data, name |-> create_name(country),
     extension |-> EXTENSION]

\* AutoRegressionParameters.serialize: "country" holds self._name.
serialize(x) == [country |-> x.name, data |-> x.data, extension |-> x.extension]

\* AutoRegressionParameters.deserialize
deserialize(param) == AutoRegressionParameters(param.country, param.data)

\* An object is made for a country and a data path.
NewParameters(country, data) ==
    /\ arp_x' = <<AutoRegressionParameters(country, data)>>
    /\ arp_ser' = <<>>
    /\ arp_y' = <<>>

\* The object is serialized.
Serialize ==
    /\ arp_x # <<>>
    /\ arp_ser = <<>>
    /\ arp_ser' = <<serialize(arp_x[1])>>
    /\ UNCHANGED <<arp_x, arp_y>>

\* The dict is deserialized.
Deserialize ==
    /\ arp_ser # <<>>
    /\ arp_y = <<>>
    /\ arp_y' = <<deserialize(arp_ser[1])>>
    /\ UNCHANGED <<arp_x, arp_ser>>

\* What a call on a parameters object has no access to.
ParamsOnly ==
    UNCHANGED <<backendVars, ret, ledgerVars, threadVars, runnerVars,
                scriptVars, autoConfigVars, cancelVars, runJobsVars,
                utilsVars, snapVars>>

NextParams ==
    \/ \E c \in Countries, d \in DataPaths : NewParameters(c, d) /\ ParamsOnly
    \/ Serialize /\ ParamsOnly
    \/ Deserialize /\ ParamsOnly

SpecParams == Init /\ [][NextParams]_vars

(* --------------------------- create_script ----------------------------- *)

\* Command texts a caller wraps into a submission script.
ScriptBodies == {"echo job_0", "echo job_1", "exit 1"}

\* "\n".join(lines): the text, as its lines.
SubmissionText(script) == <<"#!/bin/bash", script>>

\* FakeManager.create_submission_script calls create_script(filename, text),
\* with executable left at its default.
CreateScriptEnter(script) ==
    /\ cs.pc = "idle"
    /\ cs' = [pc |-> "L56", text |-> SubmissionText(script), executable |-> TRUE,
              old |-> script_file]
    /\ seen' = <<>>
    /\ UNCHANGED script_file

\* Line 56: if os.path.exists(filename)
CreateScriptL56 ==
    /\ cs.pc = "L56"
    /\ cs' = [cs EXCEPT !.pc = IF script_file.exists THEN "L57" ELSE "L59"]
    /\ UNCHANGED <<script_file, seen>>

\* Line 57: os.remove(filename)
CreateScriptL57 ==
    /\ cs.pc = "L57"
    /\ script_file' = NoFile
    /\ cs' = [cs EXCEPT !.pc = "L59"]
    /\ UNCHANGED seen

\* Line 59: open(filename, "w") makes an empty file that is not executable.
CreateScriptL59 ==
    /\ cs.pc = "L59"
    /\ script_file' = [exists |-> TRUE, text |-> <<>>, exec |-> FALSE]
    /\ cs' = [cs EXCEPT !.pc = "L61"]
    /\ UNCHANGED seen

\* Lines 61-62: the text is written and the file closed.
CreateScriptL61 ==
    /\ cs.pc = "L61"
    /\ script_file' = [script_file EXCEPT !.text = cs.text]
    /\ cs' = [cs EXCEPT !.pc = "L63"]
    /\ UNCHANGED seen

\* Lines 63-65: if executable, the mode gets stat.S_IEXEC; the call returns.
CreateScriptL63 ==
    /\ cs.pc = "L63"
    /\ script_file' = IF cs.executable THEN [script_file EXCEPT !.exec = TRUE]
                                        ELSE script_file
    /\ cs' = [cs EXCEPT !.pc = "idle"]
    /\ UNCHANGED seen

\* Another process looks at the path.
Observe ==
    /\ seen' = <<script_file>>
    /\ UNCHANGED <<script_file, cs>>

\* What create_script and the observer have no access to.
ScriptOnly ==
    UNCHANGED <<backendVars, ret, ledgerVars, threadVars, runnerVars,
                paramVars, autoConfigVars, cancelVars, runJobsVars,
                utilsVars, snapVars>>

NextScript ==
    \/ \E b \in ScriptBodies : CreateScriptEnter(b) /\ ScriptOnly
    \/ CreateScriptL56 /\ ScriptOnly
    \/ CreateScriptL57 /\ ScriptOnly
    \/ CreateScriptL59 /\ ScriptOnly
    \/ CreateScriptL61 /\ ScriptOnly
    \/ CreateScriptL63 /\ ScriptOnly
    \/ Observe /\ ScriptOnly

SpecScript == Init /\ [][NextScript]_vars

(* ----------------------------- auto_config ----------------------------- *)

\* The --post-process-config-file option: not given, a file that cannot be
\* loaded, a file whose content JobPostProcess refuses, a file it accepts.
PostProcessFiles == {"none", "unreadable", "invalid", "valid"}

\* The extension argument.
ExtensionArgs == {"registered", "unregistered"}

\* What the extension's auto-configuration routine does with the inputs.
RoutineOutcomes == {"ok", "raises"}

\* The command ends with an exception.
AutoConfigRaise(call, error) ==
    ac' = [ac EXCEPT !.pc = "error", !.trace = Append(@, call), !.error = error]

\* The command is started with its arguments.
AutoConfigEnter(pp, ext, routine, n) ==
    /\ ac.pc \in {"idle", "done", "error"}
    /\ ac' = [pc |-> "L45", post_process |-> pp, extension |-> ext,
              routine |-> routine, num_jobs |-> n, post_process_config |-> "None",
              trace |-> <<>>, error |-> "none", file_at_entry |-> config_file]
    /\ UNCHANGED config_file

\* Lines 44-46: with a post-process file, its configuration is loaded.
AutoConfigLoadPostProcess ==
    /\ ac.pc = "L45"
    /\ IF ac.post_process = "none"
       THEN ac' = [ac EXCEPT !.pc = "L57"]
       ELSE IF ac.post_process = "unreadable"
       THEN AutoConfigRaise("load_config_from_file", "LoadError")
       ELSE ac' = [ac EXCEPT !.pc = "L48", !.trace = Append(@, "load_config_from_file")]
    /\ UNCHANGED config_file

\* Lines 47-54: a JobPostProcess is built to validate the configuration.
AutoConfigValidatePostProcess ==
    /\ ac.pc = "L48"
    /\ IF ac.post_process = "invalid"
       THEN AutoConfigRaise("JobPostProcess", "InvalidParameter")
       ELSE ac' = [ac EXCEPT !.pc = "L57", !.trace = Append(@, "JobPostProcess"),
                             !.post_process_config = "dict"]
    /\ UNCHANGED config_file

\* Lines 57-59 with the check of the registry left out.
AutoConfigCheckExtensionSkipped ==
    /\ ac.pc = "L57"
    /\ ac' = [ac EXCEPT !.pc = "L61"]
    /\ UNCHANGED config_file

\* Lines 57-59: InvalidExtension unless the extension is registered.
AutoConfigCheckExtension ==
    /\ ac.pc = "L57"
    /\ IF ac.extension = "unregistered"
       THEN AutoConfigRaise("is_registered", "InvalidExtension")
       ELSE ac' = [ac EXCEPT !.pc = "L61", !.trace = Append(@, "is_registered")]
    /\ UNCHANGED config_file

\* Lines 61-63: the extension's auto-configuration routine makes the
\* configuration.
AutoConfigRoutine ==
    /\ ac.pc = "L61"
    /\ IF ac.routine = "raises"
       THEN AutoConfigRaise("auto_config", "RoutineError")
       ELSE ac' = [ac EXCEPT !.pc = "L64", !.trace = Append(@, "auto_config")]
    /\ UNCHANGED config_file

\* Lines 64-65: the configuration is dumped to the configuration file.
AutoConfigDump ==
    /\ ac.pc = "L64"
    /\ config_file' = <<[num_jobs |-> ac.num_jobs,
                         post_process_config |-> ac.post_process_config]>>
    /\ ac' = [ac EXCEPT !.pc = "done", !.trace = Append(@, "dump")]

\* What auto_config has no access to.
AutoConfigOnly ==
    UNCHANGED <<backendVars, ret, ledgerVars, threadVars, runnerVars,
                paramVars, scriptVars, cancelVars, runJobsVars,
                utilsVars, snapVars>>

NextAutoConfig ==
    \/ \E pp \in PostProcessFiles, ext \in ExtensionArgs,
          routine \in RoutineOutcomes, n \in 0..MaxJobs :
         AutoConfigEnter(pp, ext, routine, n) /\ AutoConfigOnly
    \/ AutoConfigLoadPostProcess /\ AutoConfigOnly
    \/ AutoConfigValidatePostProcess /\ AutoConfigOnly
    \/ AutoConfigCheckExtension /\ AutoConfigOnly
    \/ AutoConfigRoutine /\ AutoConfigOnly
    \/ AutoConfigDump /\ AutoConfigOnly

SpecAutoConfig == Init /\ [][NextAutoConfig]_vars

(* ------------------------------ run_jobs ------------------------------- *)

\* The pieces configuration filenames are made of.
Digits == {"1", "2"}
FileTokens == {"batch_", ".json", "x"} \cup Digits

\* The filenames of at most n pieces.
RECURSIVE FilenamesUpTo(_)
FilenamesUpTo(n) ==
    IF n = 0 THEN {<<>>}
    ELSE LET shorter == FilenamesUpTo(n - 1)
         IN  shorter \cup {Append(w, c) : w \in shorter, c \in FileTokens}

ConfigFiles == FilenamesUpTo(MaxFileLen)

\* The length of the longest run of digits of f that starts at position k.
RECURSIVE DigitRun(_, _)
DigitRun(f, k) ==
    IF k <= Len(f) /\ f[k] \in Digits THEN 1 + DigitRun(f, k + 1) ELSE 0

\* batch_(\d+)\.json matched at position k: the group, or None.
MatchAt(f, k) ==
    IF k <= Len(f) /\ f[k] = "batch_"
    THEN LET n == DigitRun(f, k + 1)
         IN  IF n >= 1 /\ k + n + 1 <= Len(f) /\ f[k + n + 1] = ".json"
             THEN <<SubSeq(f, k + 1, k + n)>>
             ELSE None
    ELSE None

\* A search that takes the last match.
re_search_last(f) ==
    LET ks == {k \in 1..Len(f) : MatchAt(f, k) # None}
    IN  IF ks = {} THEN None
        ELSE MatchAt(f, CHOOSE k \in ks : \A l \in ks : l <= k)

\* re.search(r"batch_(\d+)\.json", f): the leftmost match, or None.
re_search(f) ==
    LET ks == {k \in 1..Len(f) : MatchAt(f, k) # None}
    IN  IF ks = {} THEN None
        ELSE MatchAt(f, CHOOSE k \in ks : \A l \in ks : k <= l)

\* What JobRunner.run_jobs returns: the batch's outcome and its value.
BatchOutcomes ==
    {[all_succeeded |-> TRUE, value |-> 0],
     [all_succeeded |-> FALSE, value |-> 1]}

\* The status a process that called sys.exit(value) ends with.
sys_exit(value) == value % 256

\* The command is started on a configuration file.
RunJobsEnter(f) ==
    /\ rj.pc = "idle"
    /\ rj' = [NoRunJobs EXCEPT !.pc = "L39", !.config_file = f]
    /\ UNCHANGED output_dir

\* Lines 39-41: the batch id is taken from the filename. Without a match
\* the assert fails or, with asserts compiled out, group() is called on None.
RunJobsBatchId ==
    /\ rj.pc = "L39"
    /\ LET match == re_search(rj.config_file)
       IN  IF match = None
           THEN \E error \in {"AssertionError", "AttributeError"} :
                    rj' = [rj EXCEPT !.pc = "error", !.error = error]
           ELSE rj' = [rj EXCEPT !.pc = "L42", !.batch_id = match]
    /\ UNCHANGED output_dir

\* Lines 42-46: the output directory is made and logging is set up.
RunJobsMakedirs ==
    /\ rj.pc = "L42"
    /\ output_dir' = TRUE
    /\ rj' = [rj EXCEPT !.pc = "L48",
                        !.log_file = <<"run_jobs_batch_">> \o rj.batch_id[1] \o <<".log">>]

\* Line 48: the runner is constructed for the batch.
RunJobsConstruct ==
    /\ rj.pc = "L48"
    /\ rj' = [rj EXCEPT !.pc = "L49", !.runner = rj.batch_id]
    /\ UNCHANGED output_dir

\* Line 49: the runner runs the jobs of the batch.
RunJobsRun(outcome) ==
    /\ rj.pc = "L49"
    /\ rj' = [rj EXCEPT !.pc = "L50", !.outcome = <<outcome>>]
    /\ UNCHANGED output_dir

\* Line 50: the process exits with the outcome's value.
RunJobsExit ==
    /\ rj.pc = "L50"
    /\ rj' = [rj EXCEPT !.pc = "exited", !.exit_code = <<sys_exit(rj.outcome[1].value)>>]
    /\ UNCHANGED output_dir

\* What run_jobs has no access to.
RunJobsOnly ==
    UNCHANGED <<backendVars, ret, ledgerVars, threadVars, runnerVars,
                paramVars, scriptVars, autoConfigVars, cancelVars,
                utilsVars, snapVars>>

NextRunJobs ==
    \/ rj.pc = "idle" /\ \E f \in ConfigFiles : RunJobsEnter(f) /\ RunJobsOnly
    \/ RunJobsBatchId /\ RunJobsOnly
    \/ RunJobsMakedirs /\ RunJobsOnly
    \/ RunJobsConstruct /\ RunJobsOnly
    \/ \E outcome \in BatchOutcomes : RunJobsRun(outcome) /\ RunJobsOnly
    \/ RunJobsExit /\ RunJobsOnly

SpecRunJobs == Init /\ [][NextRunJobs]_vars

(* --------------------------- check_filename ---------------------------- *)

\* Characters of names: what \w matches, hyphen and period, and others.
WordChars == {"a", "7", "_"}
NameChars == WordChars \cup {"-", ".", " ", "\n"}

\* The names over NameChars of at most n characters.
RECURSIVE NamesUpTo(_)
NamesUpTo(n) ==
    IF n = 0 THEN {<<>>}
    ELSE LET shorter == NamesUpTo(n - 1)
         IN  shorter \cup {Append(w, c) : w \in shorter, c \in NameChars}

\* n letters.
Pad(n) == [k \in 1..n |-> "a"]

\* The names given to check_filename: short ones, and ones made long by
\* letters in front, up to and beyond MAX_PATH_LENGTH characters.
PadLengths == {0} \cup {MAX_PATH_LENGTH - k : k \in 0..MaxNameLen}
Names == {Pad(n) \o w : n \in PadLengths, w \in NamesUpTo(MaxNameLen)}

\* re.search(r"^[\w\.-]+$", name): one or more characters of the class from
\* the start to the end of the name, or to a newline that ends the name.
re_search_name(name) ==
    LET body == IF Len(name) >= 1 /\ name[Len(name)] = "\n"
                THEN SubSeq(name, 1, Len(name) - 1)
                ELSE name
    IN  /\ Len(body) >= 1
        /\ \A k \in 1..Len(body) : body[k] \in WordChars \cup {".", "-"}

\* utils.check_filename: the exception it raises, or "none".
check_filename(name) ==
    IF ~ re_search_name(name) THEN "InvalidParameter: contains illegal characters"
    ELSE IF Len(name) > MAX_PATH_LENGTH
         THEN "InvalidParameter: length greater than the limit"
         ELSE "none"

\* A call of check_filename(name).
CheckFilename(name) ==
    /\ cf' = [op |-> "check_filename", name |-> name, raised |-> check_filename(name)]
    /\ UNCHANGED <<md, dirs>>

\* What the functions of utils have no access to.
UtilsOnly ==
    UNCHANGED <<backendVars, ret, ledgerVars, threadVars, runnerVars,
                paramVars, scriptVars, autoConfigVars, cancelVars,
                runJobsVars, snapVars>>

NextFilename == \E name \in Names : CheckFilename(name) /\ UtilsOnly

SpecFilename == Init /\ [][NextFilename]_vars

(* ------------------------------ makedirs ------------------------------- *)

\* The paths given to makedirs: a directory and a directory inside it.
Paths == {<<"output">>, <<"output", "results">>}

\* os.path.dirname
Parent(path) == SubSeq(path, 1, Len(path) - 1)

\* Process p calls makedirs(path).
MakedirsEnter(p, path) ==
    /\ md[p].pc \in {"idle", "done"}
    /\ md' = [md EXCEPT ![p] = [NoMakedirs EXCEPT !.pc = "L185", !.path = path]]
    /\ UNCHANGED <<cf, dirs>>

\* Line 185: nothing is done for a path that exists.
MakedirsExists(p) ==
    /\ md[p].pc = "L185"
    /\ md' = [md EXCEPT ![p].pc = IF md[p].path \in dirs THEN "done" ELSE "L188"]
    /\ UNCHANGED <<cf, dirs>>

\* Line 188, os.makedirs: the directories above the path are made first; one
\* that another process has made in the meantime is passed over.
MakedirsParents(p) ==
    /\ md[p].pc = "L188"
    /\ dirs' = IF Parent(md[p].path) # <<>> THEN dirs \cup {Parent(md[p].path)} ELSE dirs
    /\ md' = [md EXCEPT ![p].pc = "mkdir"]
    /\ UNCHANGED cf

\* Line 188 without the handler of lines 189-191.
MakedirsMkdirUncaught(p) ==
    /\ md[p].pc = "mkdir"
    /\ IF md[p].path \in dirs
       THEN /\ md' = [md EXCEPT ![p].pc = "raised", ![p].error = "FileExistsError"]
            /\ dirs' = dirs
       ELSE /\ md' = [md EXCEPT ![p].pc = "done"]
            /\ dirs' = dirs \cup {md[p].path}
    /\ UNCHANGED cf

\* Lines 188-191, os.makedirs: the path itself is made; FileExistsError for
\* a path that another process has made in the meantime is caught.
MakedirsMkdir(p) ==
    /\ md[p].pc = "mkdir"
    /\ md' = [md EXCEPT ![p].pc = "done", ![p].caught = md[p].path \in dirs]
    /\ dirs' = dirs \cup {md[p].path}
    /\ UNCHANGED cf

NextMakedirs ==
    \/ \E p \in Procs, path \in Paths : MakedirsEnter(p, path) /\ UtilsOnly
    \/ \E p \in Procs : MakedirsExists(p) /\ UtilsOnly
    \/ \E p \in Procs : MakedirsParents(p) /\ UtilsOnly
    \/ \E p \in Procs : MakedirsMkdir(p) /\ UtilsOnly

SpecMakedirs == Init /\ [][NextMakedirs]_vars

(* ------------------------- history projections ------------------------- *)

\* The ids instance i returned from submit, in order.
IdsOf(i) ==
    LET s == SelectSeq(submitted, LAMBDA e : e[1] = i)
    IN  [k \in 1..Len(s) |-> s[k][2]]

\* The set of ids instance i returned from submit.
IssuedBy(i) == {IdsOf(i)[k] : k \in 1..Len(IdsOf(i))}

SubmitCount(i) == Len(IdsOf(i))

\* The step is a submit on instance j.
SubmitStepOn(j) ==
    /\ Len(submitted') = Len(submitted) + 1
    /\ submitted'[Len(submitted')][1] = j

(* ------------------------------ claims --------------------------------- *)

\* C2: check_status called with a job id that this backend instance never
\* issued returns status NONE, in every backend state.
C2_UnknownIdIsNone ==
    (ret.op = "check_status" /\ ret.arg # None /\ ret.arg \notin IssuedBy(ret.inst))
        => ret.info.status = "NONE"

\* C3: the mapping check_statuses returns has a key for every job id the
\* instance returned from submit.
C3_StatusesCoverIssued ==
    ret.op = "check_statuses" => IssuedBy(ret.inst) \subseteq DOMAIN ret.val

\* The status the claim of C4 expects of an instance submitted to at most once.
LifecycleStatus(i) ==
    IF SubmitCount(i) = 0 THEN "NONE"
    ELSE IF subprocess_mgr[i][1].alive THEN "RUNNING" ELSE "COMPLETE"

StatusRank(st) ==
    CASE st = "NONE" -> 0 [] st = "RUNNING" -> 1 [] st = "COMPLETE" -> 2
      [] OTHER -> -1

C4_Step ==
    \A i \in Inst :
        SubmitCount(i)' <= 1 =>
            /\ \A id \in QueryIds :
                  (SubmitCount(i)' = 1 => id \in IssuedBy(i)') =>
                    /\ check_status(i, id)'.status = LifecycleStatus(i)'
                    /\ check_status(i, id)'.status # "FAILED"
                    /\ StatusRank(check_status(i, id)'.status)
                         >= StatusRank(check_status(i, id).status)
            /\ (ret' # ret /\ ret'.op = "check_status" /\ ret'.inst = i
                 /\ (SubmitCount(i)' = 1 => ret'.arg \in IssuedBy(i)'))
                  => /\ ret'.info.status = LifecycleStatus(i)'
                     /\ ret'.info.job_id = ret'.arg

\* C4: on an instance submitted to once, check_status for the returned id
\* reports NONE only before the submit, RUNNING exactly while the child is
\* alive and COMPLETE once it has exited; the status never goes back, and
\* FAILED is never reported.
C4_StatusLifecycle == [][C4_Step]_vars

\* A COMPLETE was observed for the id of an instance submitted to once.
C4_Witness ==
    /\ ret.op = "check_status"
    /\ SubmitCount(ret.inst) = 1
    /\ ret.arg \in IssuedBy(ret.inst)
    /\ ret.info.status = "COMPLETE"

\* C5: the ids returned by successive submit calls are strictly increasing as
\* integers (so pairwise distinct), and every submit returns GOOD with a
\* non-null id and a null error detail.
C5_IdsIncrease ==
    /\ \A k, l \in 1..Len(submitted) :
          k < l => IntOf(submitted[k][2]) < IntOf(submitted[l][2])
    /\ ret.op = "submit" =>
          /\ ret.status = "GOOD"
          /\ ret.job_id # None
          /\ ret.err = None
          /\ ret.job_id = submitted[Len(submitted)][2]

\* Submits on both instances have taken the ids to two digits.
C5_Witness ==
    /\ Len(submitted) >= 10
    /\ SubmitCount("A") >= 2
    /\ SubmitCount("B") >= 2
    /\ ret.op = "submit"

C6_Step ==
    \A i, j \in Inst :
        (i # j /\ SubmitStepOn(j)) =>
            /\ job_id'[i] = job_id[i]
            /\ subprocess_mgr'[i] = subprocess_mgr[i]
            /\ next_job_id' = next_job_id + 1

Succeeded == {k \in 1..Len(results) : results[k].status = 0}
Failed == {k \in 1..Len(results) : results[k].status # 0}

C8_Summary(s) ==
    /\ s.num_complete = Len(results)
    /\ s.num_complete = s.num_successful + s.num_failed
    /\ s.num_successful = Cardinality(Succeeded)
    /\ s.num_failed = Cardinality(Failed)
    /\ s.num_jobs = Len(config)
    /\ (Len(results) = Len(config) /\ Cardinality(Failed) = 1)
          => (s.num_failed = 1 /\ s.num_successful = Len(config) - 1)

\* C8: in the summary, num_complete is the number of recorded results and is
\* num_successful + num_failed, a result counts as successful exactly when
\* its status is 0, and num_jobs is the configuration's job count; with all
\* N jobs recorded and one non-zero status, num_failed = 1 and
\* num_successful = N - 1. It holds of the summary of the current state and
\* of the summary last returned since the last recording.
C8_SummaryCounts ==
    /\ C8_Summary(get_results_summmary)
    /\ summary_seen # NoSummary => C8_Summary(summary_seen.val)
    /\ ret.op = "get_results_summmary" => ret.val = summary_seen.val
    /\ ret.op = "get_results_summmary_report" => ret.val = json_dumps(summary_seen.val)

\* A summary was returned with all of three jobs recorded, one of them failed
\* with a negative status.
C8_Witness ==
    /\ ret.op = "get_results_summmary"
    /\ Len(config) = 3
    /\ Len(results) = 3
    /\ Cardinality(Failed) = 1
    /\ \E k \in Failed : results[k].status < 0

C10_Step ==
    /\ ret'.op \in {"get_results_summmary", "get_results_summmary_report"}
          => (results' = results /\ config' = config)
    /\ (ret'.op = "get_results_summmary" /\ summary_seen # NoSummary)
          => ret'.val = summary_seen.val
    /\ (ret'.op = "get_results_summmary_report" /\ summary_seen # NoSummary)
          => ret'.val = json_dumps(summary_seen.val)

\* C10: get_results_summmary and get_results_summmary_report leave the
\* recorded results and the configuration unchanged, and a call returns what
\* the call before it returned when no result was recorded in between.
C10_SummaryPure == [][C10_Step]_vars

\* The summary was returned twice with the same two results recorded.
C10_Witness ==
    /\ ret.op = "get_results_summmary"
    /\ summary_seen.calls = 2
    /\ Len(results) = 2

\* C7: with submit called from more than one thread, no two submit calls
\* return the same job id, and once every call has returned the counter has
\* advanced by exactly the number of submits.
C7_SubmitSerialized ==
    /\ \A k, l \in 1..Len(submitted) :
          k # l => submitted[k][2] # submitted[l][2]
    /\ (\A t \in Threads : pc[t] = "idle")
          => next_job_id = InitNextJobId + Len(submitted)

\* C1: with the simulated backend, N jobs and a ceiling K < N, at most K jobs
\* are SUBMITTED in every state, and every job reaches TERMINAL and stays
\* there.
C1_CeilingAndTermination ==
    /\ [](Cardinality(JobsIn("SUBMITTED")) <= ceiling /\ ceiling < Len(config))
    /\ <>[](JobsIn("TERMINAL") = 1..Len(config))

\* Three jobs under a ceiling of two: two are SUBMITTED and one still waits.
C1_Witness ==
    /\ Len(config) = 3
    /\ ceiling = 2
    /\ Cardinality(JobsIn("SUBMITTED")) = 2
    /\ JobsIn("PENDING") = {3}

C9_Step ==
    /\ Len(results') >= Len(results)
    /\ SubSeq(results', 1, Len(results)) = results
    /\ {results'[k].name : k \in (Len(results) + 1)..Len(results')}
         = {config[j] : j \in JobsIn("TERMINAL")' \ JobsIn("TERMINAL")}
    /\ (ret'.op = "append" /\ ret'.arg.name \in RecordedNames)
          => (ret'.err = "DuplicateResultError" /\ results' = results)

C11_RoundTrip ==
    arp_y # <<>> =>
        /\ arp_y[1].country = arp_x[1].country
        /\ arp_y[1].data = arp_x[1].data
        /\ arp_y[1].name = arp_x[1].name
        /\ arp_y[1].extension = arp_x[1].extension

\* Two characters that are the same, or differ only in letter case or as
\* space and underscore.
SameChar(a, b) ==
    \/ a = b
    \/ {a, b} = {" ", "_"}
    \/ {a, b} = {"U", "u"}

\* Two strings that differ only in letter case or in space versus underscore.
SameCountry(v, w) ==
    /\ Len(v) = Len(w)
    /\ \A k \in 1..Len(v) : SameChar(v[k], w[k])

\* C17: the name is the country with spaces replaced by underscores and
\* letters lower-cased; normalizing a name again gives the name; the name
\* survives serialize and deserialize; countries that differ only in letter
\* case or in space versus underscore get the same name.
C17_NameNormalized ==
    /\ arp_x # <<>> =>
          LET x == arp_x[1]
          IN  /\ Len(x.name) = Len(x.country)
              /\ \A k \in 1..Len(x.name) :
                    /\ x.name[k] \notin {" ", "U"}
                    /\ SameChar(x.name[k], x.country[k])
              /\ create_name(x.name) = x.name
              /\ \A c \in Countries :
                    SameCountry(c, x.country)
                        => AutoRegressionParameters(c, x.data).name = x.name
    /\ arp_ser # <<>> => arp_ser[1].country = arp_x[1].name
    /\ arp_y # <<>> => arp_y[1].name = arp_x[1].name

\* A country with an upper-case letter and a space went through serialize
\* and deserialize.
C17_Witness ==
    /\ arp_y # <<>>
    /\ arp_x[1].country = <<"U", " ">>
    /\ arp_y[1].name = <<"u", "_">>

\* C12: while and after a submission script is written over an existing
\* file, an observer of the path sees the complete old file or the complete
\* new executable file, nothing else.
C12_AtomicReplace ==
    (cs.old.exists /\ seen # <<>>) =>
        \/ seen[1] = cs.old
        \/ seen[1] = [exists |-> TRUE, text |-> cs.text, exec |-> TRUE]

\* The calls made so far by the auto_config command.
AcCalls == {ac.trace[k] : k \in 1..Len(ac.trace)}

\* Call a comes before call b in the command's trace.
AcBefore(a, b) ==
    \E k, l \in 1..Len(ac.trace) : k < l /\ ac.trace[k] = a /\ ac.trace[l] = b

\* C13: auto_config fails before writing anything when the post-process
\* configuration fails validation or the extension is not registered: the
\* command ends in an error and the configuration file is not written; the
\* post-process validation comes before the extension lookup, and the dump
\* comes only after both checks and the extension's routine succeeded.
C13_FailFast ==
    /\ (ac.post_process \in {"unreadable", "invalid"} \/ ac.extension = "unregistered")
          => /\ "dump" \notin AcCalls
             /\ config_file = ac.file_at_entry
             /\ ac.pc # "done"
             /\ ac.pc = "error" => ac.error \in {"LoadError", "InvalidParameter",
                                                 "InvalidExtension"}
    /\ ac.pc = "error" => ("dump" \notin AcCalls /\ config_file = ac.file_at_entry)
    /\ ("is_registered" \in AcCalls /\ ac.post_process # "none")
          => AcBefore("JobPostProcess", "is_registered")
    /\ "dump" \in AcCalls
          => /\ ac.post_process \in {"none", "valid"}
             /\ ac.extension = "registered"
             /\ ac.routine = "ok"
             /\ AcBefore("is_registered", "auto_config")
             /\ AcBefore("auto_config", "dump")
             /\ ac.post_process = "valid" => AcBefore("JobPostProcess", "dump")
    /\ ac.pc \notin {"done", "L64"} => config_file = ac.file_at_entry

\* A run for an unregistered extension ended in InvalidExtension, after a
\* valid post-process configuration and with the file of an earlier run
\* left as it was.
C13_Witness ==
    /\ ac.pc = "error"
    /\ ac.error = "InvalidExtension"
    /\ ac.extension = "unregistered"
    /\ ac.post_process = "valid"
    /\ ac.file_at_entry # <<>>
    /\ config_file = ac.file_at_entry

\* A step that is a call of cancel_job.
C15_IsCancel == ret'.op = "cancel_job" /\ ret' # ret

C15_Step ==
    C15_IsCancel =>
        /\ ret'.code = 0
        /\ UNCHANGED <<next_job_id, job_id, subprocess_mgr, submitted>>
        /\ \A i \in Inst, id \in QueryIds : check_status(i, id)' = check_status(i, id)

\* C15: cancel_job of the simulated backend returns 0 for every job id
\* (unknown, running, already terminal) however often it is called, and
\* leaves the tracked job id, the child process and the id counter as they
\* were, so check_status reports the same before and after.
C15_CancelIdempotent == [][C15_Step]_vars

\* cancel_job has returned 0 for the id of a job whose child process runs on.
C15_Witness ==
    /\ ret.op = "cancel_job"
    /\ ret.code = 0
    /\ ret.arg = job_id[ret.inst]
    /\ ret.arg # None
    /\ check_status(ret.inst, ret.arg).status = "RUNNING"

\* The step that cancels the batch.
C14_IsCancel == cancel_requested' /\ ~ cancel_requested

C14_Step ==
    /\ C14_IsCancel =>
          \A j \in 1..Len(config) :
              /\ jstate[j] = "SUBMITTED" =>
                    \E k \in 1..Len(cancel_calls') :
                        /\ cancel_calls'[k].id = ext_id[j]
                        /\ cancel_calls'[k].code = 0
              /\ jstate[j] = "PENDING" =>
                    /\ jstate'[j] = "TERMINAL"
                    /\ j \in aborted'
                    /\ ext_id'[j] = None
    /\ (C14_IsCancel \/ cancel_requested) =>
          /\ submitted' = submitted
          /\ \A j \in aborted' : jstate'[j] = "TERMINAL" /\ ext_id'[j] = None
    /\ cancel_requested => UNCHANGED <<cancel_calls, aborted>>

\* C14: cancelling a batch calls the backend's cancel for every SUBMITTED job
\* and marks every PENDING job TERMINAL-aborted, and no job is submitted at
\* any point after the cancellation request.
C14_CancelBatch == [][C14_Step]_vars

\* A batch was cancelled with one job SUBMITTED and one PENDING: cancel was
\* called for the first, the second is aborted, and the first has since been
\* polled to its end.
C14_Witness ==
    /\ cancel_requested
    /\ Len(cancel_calls) = 1
    /\ aborted # {}
    /\ jstate[cancel_calls[1].job] = "TERMINAL"
    /\ cancel_calls[1].job \notin aborted

\* batch_<digits>.json stands at position k of f, with n digits.
C16_Occurs(f, k, n) ==
    /\ n >= 1
    /\ k + n + 1 <= Len(f)
    /\ f[k] = "batch_"
    /\ \A m \in 1..n : f[k + m] \in Digits
    /\ f[k + n + 1] = ".json"

\* Positions to look at in the command's filename.
C16_Positions == 1..Len(rj.config_file)

C16_HasPattern ==
    \E k \in C16_Positions, n \in C16_Positions : C16_Occurs(rj.config_file, k, n)

\* C16: run_jobs takes as batch id the digits of the first occurrence of
\* batch_<digits>.json in the configuration filename and exits with the
\* value of the outcome the runner returned, 0 exactly when all jobs
\* succeeded; without the pattern in the filename it fails before the
\* output directory is made, the runner is constructed or a job is run.
C16_BatchIdAndExit ==
    /\ rj.batch_id # None =>
          \E k \in C16_Positions, n \in C16_Positions :
              /\ C16_Occurs(rj.config_file, k, n)
              /\ rj.batch_id[1] = SubSeq(rj.config_file, k + 1, k + n)
              /\ \A l \in 1..(k - 1), m \in C16_Positions :
                     ~ C16_Occurs(rj.config_file, l, m)
    /\ rj.runner # None => rj.runner = rj.batch_id
    /\ rj.pc = "exited" =>
          /\ rj.exit_code = <<rj.outcome[1].value>>
          /\ (rj.exit_code = <<0>>) <=> rj.outcome[1].all_succeeded
    /\ (rj.pc \notin {"idle", "L39"} /\ ~ C16_HasPattern) =>
          /\ rj.pc = "error"
          /\ rj.error \in {"AssertionError", "AttributeError"}
          /\ ~ output_dir
          /\ rj.runner = None
          /\ rj.outcome = <<>>
    /\ (rj.pc \notin {"idle", "L39"} /\ C16_HasPattern) => rj.pc # "error"

\* run_jobs has exited with 0 for a filename in which batch_1.json comes
\* before batch_2.json: the batch id is 1.
C16_Witness ==
    /\ rj.pc = "exited"
    /\ rj.exit_code = <<0>>
    /\ rj.config_file = <<"batch_", "1", ".json", "batch_", "2", ".json">>
    /\ rj.batch_id = <<<<"1">>>>
    /\ output_dir

\* C18: check_filename raises InvalidParameter for a name that is empty,
\* has a character other than a letter, digit, underscore, hyphen or period
\* (a trailing newline too), or has more than 255 characters, and for no
\* other name; illegal characters are reported before the length.
C18_FilenameChecked ==
    cf.op = "check_filename" =>
        LET illegal == \/ cf.name = <<>>
                       \/ \E k \in 1..Len(cf.name) :
                              cf.name[k] \notin WordChars \cup {".", "-"}
            long == Len(cf.name) > 255
        IN  /\ (cf.raised # "none") <=> (illegal \/ long)
            /\ illegal => cf.raised = "InvalidParameter: contains illegal characters"
            /\ (long /\ ~ illegal) =>
                  cf.raised = "InvalidParameter: length greater than the limit"

\* A step in which process p passes the existence check of makedirs.
C19_Checks(p) == md[p].pc = "L185" /\ md'[p].pc # "L185"

C19_Step ==
    \A p \in Procs :
        (C19_Checks(p) /\ md[p].path \in dirs) => (dirs' = dirs /\ md'[p].pc = "done")

C19_Safe ==
    \A p \in Procs :
        /\ md[p].pc # "raised"
        /\ md[p].error = "none"
        /\ md[p].pc = "done" => (md[p].path \in dirs /\ Parent(md[p].path) \in dirs \cup {<<>>})

\* C19: when several processes call makedirs on the same path at the same
\* time, under every interleaving of the existence check and the creation
\* every call returns without raising and the directory exists afterwards;
\* on an existing directory makedirs changes nothing.
C19_MakedirsRace == [] C19_Safe /\ [][C19_Step]_vars

\* All processes were past the existence check of the same missing path at
\* the same time, one of them got FileExistsError from os.makedirs, and all
\* calls have returned.
C19_Witness ==
    /\ \A p \in Procs : md[p].pc = "done" /\ md[p].path = <<"output", "results">>
    /\ \E p \in Procs : md[p].caught

\* A step that is a call of get_completed_results.
C20_IsCall == ret'.op = "get_completed_results" /\ ret' # ret

\* A step in which the list the caller holds changes with no other call of
\* the manager.
C20_IsMutation == snap # <<>> /\ snap' # snap /\ ret' = ret

C20_Step ==
    /\ C20_IsCall =>
          /\ snap'[1].list = results
          /\ ret'.val = results
          /\ results' = results
    /\ C20_IsMutation =>
          /\ results' = results
          /\ get_results_summmary' = get_results_summmary
          /\ summary_seen' = summary_seen

\* C20: get_completed_results returns the recorded results in the order they
\* were recorded, in a list of its own: adding to it, removing from it or
\* reordering it leaves the manager's results and every later summary as
\* they were.
C20_Snapshot == [][C20_Step]_vars

\* The caller holds the reverse of two recorded results, and a summary of
\* the two was returned after that.
C20_Witness ==
    /\ snap # <<>>
    /\ Len(results) = 2
    /\ snap[1].list = <<results[2], results[1]>>
    /\ ret.op = "get_results_summmary"
    /\ ret.val = get_results_summmary

====
